---- MODULE Spec2Model ----
(***************************************************************************)
(* TareaInteligente: a retry wrapper around an asynchronous operation.     *)
(* The repository holds three variants of the same component:              *)
(*   "clase"   - ES2022 class        (src/TareaInteligenteClase.js 9-95)   *)
(*   "literal" - literal object      (src/TareaInteligenteClase.js 134-229)*)
(*   "async"   - async/await version (src/unnamed/part_001 16-85)          *)
(* One instance is modelled; its variant and its construction options are  *)
(* chosen in Init.  Every promise handler of the source is one atomic      *)
(* step (JavaScript runs a handler to completion); the suspension points   *)
(* are the operation in flight and the pending timer.                      *)
(***************************************************************************)
EXTENDS Integers, Sequences, FiniteSets, TLC

VARIABLES variante, opciones, nombre, configuracion, despues,
          intentosRealizados, corrida, corridas

\* variante            which of the three source variants the instance is
\* opciones            the argument the instance was constructed (configured) with
\* nombre              this.nombre (class, literal) / the closure's nombre (async)
\* configuracion       this.config (class), this.configuracion (literal),
\*                     the closure's raw configuracion (async)
\* despues             this.despues / the closure's despues
\* intentosRealizados  the literal object's field _intentosRealizados
\* corrida             the calls of iniciar(): per call its suspension point,
\*                     local counter, observable events and outcome
\* corridas            how many times iniciar() has been called
vars == <<variante, opciones, nombre, configuracion, despues,
          intentosRealizados, corrida, corridas>>

(* ------------------------------ bounds --------------------------------- *)
MaxReintentos == 2
MaxCorridas == 2
MaxRuns == 2

(* -------------------------- JavaScript values -------------------------- *)
Undef == [t |-> "undefined"]
Num(n) == [t |-> "number", v |-> n]
Bool(b) == [t |-> "boolean", v |-> b]
Str(s) == [t |-> "string", v |-> s]
Fn == [t |-> "function"]
Dato(d) == [t |-> "dato", v |-> d]
Err(m) == [t |-> "Error", mensaje |-> m]

Falsy(x) ==
  \/ x.t = "undefined"
  \/ x.t = "number" /\ x.v = 0
  \/ x.t = "boolean" /\ x.v = FALSE
  \/ x.t = "string" /\ x.v = ""

\* the JavaScript expression  x || d
O(x, d) == IF Falsy(x) THEN d ELSE x

DefaultReintentos == 3
DefaultDemora == 1000
DemoraEjemplo == 1500

\* new Error("Todos los intentos fallaron.")
ErrorAgotado == Err("Todos los intentos fallaron.")

(* ------------------------- environment inputs -------------------------- *)
Variantes == {"clase", "literal", "async"}
ReintentosEntrada == {Undef, Num(0), Num(-1)} \cup {Num(n) : n \in 1..MaxReintentos}
DemoraEntrada == {Undef, Num(0), Num(DemoraEjemplo)}
SilencioEntrada == {Undef, Bool(FALSE), Bool(TRUE)}
NombreEntrada == {Undef, Str("Cargar datos de productos")}
DespuesEntrada == {Undef, Fn}
ConfiguracionEntrada ==
  [reintentos : ReintentosEntrada,
   demoraEntreIntentos : DemoraEntrada,
   modoSilencioso : SilencioEntrada]

\* what one call of ejecutar() can do
Resultados == {Dato("r1"), Dato("r2")}
ErrorRechazo == Err("rechazo")
ErrorLanzado == Err("excepcion")
ErrorDespues == Err("fallo en despues")

Runs == 1..MaxRuns
RunsSecuencial == {1}

(* --------------------------- construction ------------------------------ *)
\* mutant: only a missing reintentos is defaulted (??), a 0 is kept
ClasePrepararConfiguracionCeroValido(conf) ==
  [maxIntentos |->
     IF conf.reintentos.t = "undefined" THEN Num(DefaultReintentos)
     ELSE conf.reintentos,
   demoraEntreIntentos |-> O(conf.demoraEntreIntentos, Num(DefaultDemora)),
   silencio |-> O(conf.modoSilencioso, Bool(FALSE))]

\* #prepararConfiguracion of the class
ClasePrepararConfiguracion(conf) ==
  [maxIntentos |-> O(conf.reintentos, Num(DefaultReintentos)),
   demoraEntreIntentos |-> O(conf.demoraEntreIntentos, Num(DefaultDemora)),
   silencio |-> O(conf.modoSilencioso, Bool(FALSE))]

\* mutant: only a missing field is defaulted (??), a 0 or a false is kept
LiteralConfigurarSoloAusentes(conf) ==
  [reintentos |->
     IF conf.reintentos.t = "undefined" THEN Num(DefaultReintentos)
     ELSE conf.reintentos,
   demoraEntreIntentos |->
     IF conf.demoraEntreIntentos.t = "undefined" THEN Num(DefaultDemora)
     ELSE conf.demoraEntreIntentos,
   modoSilencioso |->
     IF conf.modoSilencioso.t = "undefined" THEN Bool(FALSE)
     ELSE conf.modoSilencioso]

\* the configuracion object built by configurar of the literal object
LiteralConfigurar(conf) ==
  [reintentos |-> O(conf.reintentos, Num(DefaultReintentos)),
   demoraEntreIntentos |-> O(conf.demoraEntreIntentos, Num(DefaultDemora)),
   modoSilencioso |-> O(conf.modoSilencioso, Bool(FALSE))]

\* prepararConfiguracion of the async variant: { ...config, maxIntentos, silencio }
AsyncPrepararConfiguracion(conf) ==
  [reintentos |-> conf.reintentos,
   demoraEntreIntentos |-> conf.demoraEntreIntentos,
   modoSilencioso |-> conf.modoSilencioso,
   maxIntentos |-> O(conf.reintentos, Num(DefaultReintentos)),
   silencio |-> O(conf.modoSilencioso, Bool(FALSE))]

\* the name the instance keeps: the class and the literal object default it,
\* the async variant closes over the option as given
NombreGuardado(v, n) ==
  IF v = "async" THEN n ELSE O(n, Str("TareaSinNombre"))

\* the stored configuration: normalised at construction by the class and by
\* configurar; the async variant keeps the raw object and normalises in iniciar
ConfiguracionGuardada(v, conf) ==
  CASE v = "clase" -> ClasePrepararConfiguracion(conf)
    [] v = "literal" -> LiteralConfigurar(conf)
    [] v = "async" -> conf

\* the stored callback: configurar replaces a missing one by function() {}
DespuesGuardado(v, d) ==
  IF v = "literal" THEN O(d, [t |-> "function", noop |-> TRUE]) ELSE d

(* --------------------- the configuration a run reads ------------------- *)
ConfigDeCorrida ==
  IF variante = "async" THEN AsyncPrepararConfiguracion(configuracion)
  ELSE configuracion

MaxIntentos ==
  IF variante = "literal" THEN ConfigDeCorrida.reintentos.v
  ELSE ConfigDeCorrida.maxIntentos.v

Silencio ==
  IF variante = "literal" THEN ~Falsy(ConfigDeCorrida.modoSilencioso)
  ELSE ~Falsy(ConfigDeCorrida.silencio)

\* the argument of esperar(): the async variant defaults it at the call
Demora ==
  IF variante = "async"
  THEN O(ConfigDeCorrida.demoraEntreIntentos, Num(DefaultDemora)).v
  ELSE ConfigDeCorrida.demoraEntreIntentos.v

\* is there a callback supplied by the caller (not the literal's function() {})
DespuesDelUsuario == despues.t = "function" /\ "noop" \notin DOMAIN despues

(* ------------------------------ one run -------------------------------- *)
\* a run of iniciar(): where it is suspended, its local attempt counter, the
\* observable events it produced, what each call of ejecutar() did, what
\* the caller of iniciar() got, and (antes) how many times the call of
\* iniciar() before this one invoked the operation
CorridaInicial ==
  [pc |-> "inactiva", intentos |-> 0, traza |-> <<>>, hist |-> <<>>,
   salida |-> [estado |-> "ninguna"], antes |-> 0]

EvInvocar == [tipo |-> "invocar"]
EvEspera(ms) == [tipo |-> "espera", ms |-> ms]
EvWarn(n) == [tipo |-> "warn", n |-> n]
EvError(n, e) == [tipo |-> "error", nombre |-> n, error |-> e]
EvDespues(r, lanza) == [tipo |-> "despues", resultado |-> r, lanza |-> lanza]

Registrar(st, ev) == [st EXCEPT !.c.traza = Append(@, ev)]
Anotar(st, h) == [st EXCEPT !.c.hist = Append(@, h)]
Terminar(st, estado, valor) ==
  [st EXCEPT !.c.pc = "terminada",
             !.c.salida = [estado |-> estado, valor |-> valor]]

\* what a call of ejecutar() does before it returns: it hands back a promise,
\* or the call itself throws
SalidasSincronas ==
  {[tipo |-> "promesa"], [tipo |-> "lanza", error |-> ErrorLanzado]}

(* ------------------ class variant: the promise handlers ---------------- *)
\* mutant: the error log is skipped in silent mode
ClaseCatchIniciarCalladoEnSilencio(st, error) ==
  Terminar(IF Silencio THEN st ELSE Registrar(st, EvError(nombre, error)),
           "rechazada", error)

\* iniciar(): .catch((error) => { console.error(...); return Promise.reject(error) })
ClaseCatchIniciar(st, error) ==
  Terminar(Registrar(st, EvError(nombre, error)), "rechazada", error)

\* mutant: the callback is never called
ClaseThenIniciarSinDespues(st, resultado, dLanza) ==
  Terminar(st, "resuelta", resultado)

\* iniciar(): .then((resultado) => { if (this.despues) this.despues(resultado); return resultado })
ClaseThenIniciar(st, resultado, dLanza) ==
  IF ~Falsy(despues)
  THEN LET s1 == Registrar(st, EvDespues(resultado, dLanza))
       IN IF dLanza THEN ClaseCatchIniciar(s1, ErrorDespues)
          ELSE Terminar(s1, "resuelta", resultado)
  ELSE Terminar(st, "resuelta", resultado)

\* mutant: off by one, the test is intentos <= conf.maxIntentos
ClaseCatchIntentarUnoDeMas(st, error) ==
  LET n == st.c.intentos + 1
      s1 == [st EXCEPT !.c.intentos = n]
      s2 == IF ~Silencio THEN Registrar(s1, EvWarn(n)) ELSE s1
  IN IF n <= MaxIntentos
     THEN [Registrar(s2, EvEspera(Demora)) EXCEPT !.c.pc = "esperando"]
     ELSE ClaseCatchIniciar(s2, ErrorAgotado)

\* mutant: the last failure of the operation is passed on instead of a new Error
ClaseCatchIntentarPasaElUltimoError(st, error) ==
  LET n == st.c.intentos + 1
      s1 == [st EXCEPT !.c.intentos = n]
      s2 == IF ~Silencio THEN Registrar(s1, EvWarn(n)) ELSE s1
  IN IF n < MaxIntentos
     THEN [Registrar(s2, EvEspera(Demora)) EXCEPT !.c.pc = "esperando"]
     ELSE ClaseCatchIniciar(s2, error)

\* intentar: the .catch handler attached to funcion()
ClaseCatchIntentar(st, error) ==
  LET n == st.c.intentos + 1
      s1 == [st EXCEPT !.c.intentos = n]
      s2 == IF ~Silencio THEN Registrar(s1, EvWarn(n)) ELSE s1
  IN IF n < MaxIntentos
     THEN [Registrar(s2, EvEspera(Demora)) EXCEPT !.c.pc = "esperando"]
     ELSE ClaseCatchIniciar(s2, ErrorAgotado)

\* mutant: the loop is wrapped in new Promise((resolve, reject) => ...), so
\* an exception of funcion() inside .then(intentar) settles nothing and the
\* promise of iniciar() stays pending for ever
ClaseIntentarPromesaColgada(st, o, primera) ==
  LET s1 == Registrar(st, EvInvocar)
  IN IF o.tipo = "lanza"
     THEN LET s2 == Anotar(s1, [tipo |-> "lanza", valor |-> o.error])
          IN IF primera THEN Terminar(s2, "lanzada", o.error)
             ELSE [s2 EXCEPT !.c.pc = "colgada"]
     ELSE [s1 EXCEPT !.c.pc = "intentando"]

\* intentar: the call funcion().  A call that throws has no promise to attach
\* .catch to: from iniciar() the exception leaves iniciar() itself, from
\* .then(intentar) it rejects the chain that ends in iniciar's .catch
ClaseIntentar(st, o, primera) ==
  LET s1 == Registrar(st, EvInvocar)
  IN IF o.tipo = "lanza"
     THEN LET s2 == Anotar(s1, [tipo |-> "lanza", valor |-> o.error])
          IN IF primera THEN Terminar(s2, "lanzada", o.error)
             ELSE ClaseCatchIniciar(s2, o.error)
     ELSE [s1 EXCEPT !.c.pc = "intentando"]

(* ------------- literal-object variant: the promise handlers ------------ *)
\* iniciar: .catch(function(error) { console.error(...); return Promise.reject(error) })
LiteralCatchIniciar(st, error) ==
  Terminar(Registrar(st, EvError(nombre, error)), "rechazada", error)

\* iniciar: .then(function(resultado) { self.despues(resultado); return resultado })
\* (the call of the function() {} that configurar substitutes is not an event)
LiteralThenIniciar(st, resultado, dLanza) ==
  IF DespuesDelUsuario
  THEN LET s1 == Registrar(st, EvDespues(resultado, dLanza))
       IN IF dLanza THEN LiteralCatchIniciar(s1, ErrorDespues)
          ELSE Terminar(s1, "resuelta", resultado)
  ELSE Terminar(st, "resuelta", resultado)

\* mutant: the last failure of the operation is rejected and logged
LiteralCatchIntentarPasaElUltimoError(st, error) ==
  LET n == st.ir + 1
      s1 == [st EXCEPT !.ir = n]
      s2 == IF ~Silencio THEN Registrar(s1, EvWarn(n)) ELSE s1
  IN IF n < MaxIntentos
     THEN [Registrar(s2, EvEspera(Demora)) EXCEPT !.c.pc = "esperando"]
     ELSE LiteralCatchIniciar(s2, error)

\* mutant: the attempts are counted in a variable of the run, not in the
\* object's field
LiteralCatchIntentarContadorLocal(st, error) ==
  LET n == st.c.intentos + 1
      s1 == [st EXCEPT !.c.intentos = n]
      s2 == IF ~Silencio THEN Registrar(s1, EvWarn(n)) ELSE s1
  IN IF n < MaxIntentos
     THEN [Registrar(s2, EvEspera(Demora)) EXCEPT !.c.pc = "esperando"]
     ELSE LiteralCatchIniciar(s2, ErrorAgotado)

\* _intentarEjecucion: the .catch handler; the counter is the object's field
LiteralCatchIntentar(st, error) ==
  LET n == st.ir + 1
      s1 == [st EXCEPT !.ir = n]
      s2 == IF ~Silencio THEN Registrar(s1, EvWarn(n)) ELSE s1
  IN IF n < MaxIntentos
     THEN [Registrar(s2, EvEspera(Demora)) EXCEPT !.c.pc = "esperando"]
     ELSE LiteralCatchIniciar(s2, ErrorAgotado)

\* _intentarEjecucion: the call this.ejecutar()
LiteralIntentarEjecucion(st, o, primera) ==
  LET s1 == Registrar(st, EvInvocar)
  IN IF o.tipo = "lanza"
     THEN LET s2 == Anotar(s1, [tipo |-> "lanza", valor |-> o.error])
          IN IF primera THEN Terminar(s2, "lanzada", o.error)
             ELSE LiteralCatchIniciar(s2, o.error)
     ELSE [s1 EXCEPT !.c.pc = "intentando"]

(* ------------------- async variant: the continuations ------------------ *)
\* iniciar: catch (error) { logError(error, nombre) }; the async function then
\* returns, so its promise is fulfilled with undefined
AsyncCatchIniciar(st, error) ==
  Terminar(Registrar(st, EvError(nombre, error)), "resuelta", Undef)

\* iniciar: const resultado = await ...; if (despues) despues(resultado);
AsyncThenIniciar(st, resultado, dLanza) ==
  IF ~Falsy(despues)
  THEN LET s1 == Registrar(st, EvDespues(resultado, dLanza))
       IN IF dLanza THEN AsyncCatchIniciar(s1, ErrorDespues)
          ELSE Terminar(s1, "resuelta", Undef)
  ELSE Terminar(st, "resuelta", Undef)

\* ejecutarConResiliencia: catch (e) { intentos++; warn; await esperar(...) }
AsyncCatchIntentar(st, error) ==
  LET n == st.c.intentos + 1
      s1 == [st EXCEPT !.c.intentos = n]
      s2 == IF ~Silencio THEN Registrar(s1, EvWarn(n)) ELSE s1
  IN [Registrar(s2, EvEspera(Demora)) EXCEPT !.c.pc = "esperando"]

\* ejecutarConResiliencia: the loop test, the call funcion() inside try, and
\* the throw after the loop
AsyncBucle(st, o) ==
  IF st.c.intentos < MaxIntentos
  THEN LET s1 == Registrar(st, EvInvocar)
       IN IF o.tipo = "lanza"
          THEN AsyncCatchIntentar(Anotar(s1, [tipo |-> "lanza", valor |-> o.error]),
                                  o.error)
          ELSE [s1 EXCEPT !.c.pc = "intentando"]
  ELSE AsyncCatchIniciar(st, ErrorAgotado)

(* ------------------------------ the system ----------------------------- *)
OpcionesEntrada ==
  [nombre : NombreEntrada, configuracion : ConfiguracionEntrada,
   despues : DespuesEntrada]

\* the instance after new TareaInteligente(opciones) / configurar(opciones) /
\* TareaInteligente(opciones)
Construida ==
  /\ nombre = NombreGuardado(variante, opciones.nombre)
  /\ configuracion = ConfiguracionGuardada(variante, opciones.configuracion)
  /\ despues = DespuesGuardado(variante, opciones.despues)
  /\ intentosRealizados = 0

Init ==
  /\ variante \in Variantes
  /\ opciones \in OpcionesEntrada
  /\ Construida
  /\ corrida = [r \in Runs |-> CorridaInicial]
  /\ corridas = 0

Estado(r) == [c |-> corrida[r], ir |-> intentosRealizados]

Pasar(r, st) ==
  /\ corrida' = [corrida EXCEPT ![r] = st.c]
  /\ intentosRealizados' = st.ir

\* mutant: the literal object's iniciar forgets this._intentosRealizados = 0
ContadorAlIniciarSinReinicio == intentosRealizados

\* the object's field after the first statement of the literal's iniciar
\* (the class and the async variant do not touch it)
ContadorAlIniciar == IF variante = "literal" THEN 0 ELSE intentosRealizados

\* iniciar(): everything up to the first suspension.  The literal object
\* resets its field; the other two declare a fresh local counter.
Iniciar(r) ==
  /\ corrida[r].pc \in {"inactiva", "terminada"}
  /\ corridas < MaxCorridas
  /\ corridas' = corridas + 1
  /\ \E o \in SalidasSincronas :
       LET st == [c |-> [CorridaInicial EXCEPT
                           !.salida = [estado |-> "pendiente"],
                           !.antes = Len(SelectSeq(corrida[r].traza,
                                         LAMBDA e : e.tipo = "invocar"))],
                  ir |-> ContadorAlIniciar]
       IN Pasar(r, CASE variante = "clase" -> ClaseIntentar(st, o, TRUE)
                     [] variante = "literal" -> LiteralIntentarEjecucion(st, o, TRUE)
                     [] variante = "async" -> AsyncBucle(st, o))
  /\ UNCHANGED <<variante, opciones, nombre, configuracion, despues>>

\* the promise returned by ejecutar() is fulfilled
OperacionResuelve(r) ==
  /\ corrida[r].pc = "intentando"
  /\ \E v \in Resultados, dLanza \in BOOLEAN :
       LET st == Anotar(Estado(r), [tipo |-> "resuelve", valor |-> v])
       IN Pasar(r, CASE variante = "clase" -> ClaseThenIniciar(st, v, dLanza)
                     [] variante = "literal" -> LiteralThenIniciar(st, v, dLanza)
                     [] variante = "async" -> AsyncThenIniciar(st, v, dLanza))
  /\ UNCHANGED <<variante, opciones, nombre, configuracion, despues, corridas>>

\* the promise returned by ejecutar() is rejected
OperacionRechaza(r) ==
  /\ corrida[r].pc = "intentando"
  /\ LET st == Anotar(Estado(r), [tipo |-> "rechaza", valor |-> ErrorRechazo])
     IN Pasar(r, CASE variante = "clase" -> ClaseCatchIntentar(st, ErrorRechazo)
                   [] variante = "literal" -> LiteralCatchIntentar(st, ErrorRechazo)
                   [] variante = "async" -> AsyncCatchIntentar(st, ErrorRechazo))
  /\ UNCHANGED <<variante, opciones, nombre, configuracion, despues, corridas>>

\* the timer of esperar() fires and the loop goes on
FinEspera(r) ==
  /\ corrida[r].pc = "esperando"
  /\ \E o \in SalidasSincronas :
       Pasar(r, CASE variante = "clase" -> ClaseIntentar(Estado(r), o, FALSE)
                  [] variante = "literal" -> LiteralIntentarEjecucion(Estado(r), o, FALSE)
                  [] variante = "async" -> AsyncBucle(Estado(r), o))
  /\ UNCHANGED <<variante, opciones, nombre, configuracion, despues, corridas>>

\* one caller that awaits each iniciar() before it calls it again
Next ==
  \E r \in RunsSecuencial :
    \/ Iniciar(r)
    \/ OperacionResuelve(r)
    \/ OperacionRechaza(r)
    \/ FinEspera(r)

Spec == Init /\ [][Next]_vars

\* the options of the instance whose iniciar() is called again while a run
\* is in flight: a named task, no callback, reintentos >= 1, default delay
\* and logging
OpcionesSolapadas ==
  {o \in OpcionesEntrada :
     /\ o.nombre # Undef /\ o.despues = Undef
     /\ o.configuracion.reintentos.t = "number"
     /\ o.configuracion.reintentos.v >= 1
     /\ o.configuracion.demoraEntreIntentos = Undef
     /\ o.configuracion.modoSilencioso = Undef}

InitSolapada ==
  /\ variante \in Variantes
  /\ opciones \in OpcionesSolapadas
  /\ Construida
  /\ corrida = [r \in Runs |-> CorridaInicial]
  /\ corridas = 0

\* callers that do not await iniciar(): a call may start while the runs of
\* earlier calls are suspended on the operation or on the timer
NextSolapada ==
  \E r \in Runs :
    \/ Iniciar(r)
    \/ OperacionResuelve(r)
    \/ OperacionRechaza(r)
    \/ FinEspera(r)

SpecSolapada == InitSolapada /\ [][NextSolapada]_vars

\* the same caller, with what the environment guarantees: a promise returned
\* by ejecutar() is settled some time, and the timer of setTimeout fires
SpecJusto ==
  /\ Init /\ [][Next]_vars
  /\ \A r \in RunsSecuencial :
       /\ WF_vars(OperacionResuelve(r) \/ OperacionRechaza(r))
       /\ WF_vars(FinEspera(r))

(* ------------------------- what a run shows ---------------------------- *)
Cuenta(tr, tipo) == Len(SelectSeq(tr, LAMBDA e : e.tipo = tipo))
Invocaciones(r) == Cuenta(corrida[r].traza, "invocar")
Esperas(r) == Cuenta(corrida[r].traza, "espera")
Warns(r) == Cuenta(corrida[r].traza, "warn")
Errores(r) == Cuenta(corrida[r].traza, "error")
LlamadasDespues(r) == Cuenta(corrida[r].traza, "despues")

Termino(r) == corrida[r].pc = "terminada"
Fallos(r) == Len(SelectSeq(corrida[r].hist, LAMBDA h : h.tipo # "resuelve"))
HuboExito(r) == \E i \in 1..Len(corrida[r].hist) : corrida[r].hist[i].tipo = "resuelve"
TodosFallaron(r) == Len(corrida[r].hist) >= 1 /\ ~HuboExito(r)
TodosRechazaron(r) ==
  /\ Len(corrida[r].hist) >= 1
  /\ \A i \in 1..Len(corrida[r].hist) : corrida[r].hist[i].tipo = "rechaza"
FalloDespues(r) ==
  \E i \in 1..Len(corrida[r].traza) :
    corrida[r].traza[i].tipo = "despues" /\ corrida[r].traza[i].lanza

\* the attempt counter the run reads: the object's field in the literal
\* variant, the local variable in the other two
Contador(r) == IF variante = "literal" THEN intentosRealizados ELSE corrida[r].intentos

\* the run ended with its attempts exhausted: no attempt succeeded, the loop
\* counted every failure and the count reached maxIntentos
Agotada(r) ==
  /\ Termino(r) /\ ~HuboExito(r)
  /\ Fallos(r) = Contador(r)
  /\ Contador(r) >= MaxIntentos

(* ============================== claims ================================= *)

\* C1: with maxAttempts = N >= 1 and an operation that fails on every
\* attempt (here: every promise it returns is rejected), a finished run of
\* iniciar() has invoked the operation exactly N times and iniciar() is
\* rejected with the exhaustion error.
C1_FallaTrasNIntentos ==
  \A r \in Runs :
    (Termino(r) /\ MaxIntentos >= 1 /\ TodosRechazaron(r)) =>
      /\ Invocaciones(r) = MaxIntentos
      /\ corrida[r].salida = [estado |-> "rechazada", valor |-> ErrorAgotado]

\* C2: a delay lies only between a failed attempt and the next attempt: in a
\* finished run every delay has an invocation before it and one after it, so
\* N failed attempts out of maxAttempts = N give N-1 delays.
C2_EsperaSoloEntreIntentos ==
  \A r \in Runs :
    Termino(r) =>
      /\ \A i \in 1..Len(corrida[r].traza) :
           corrida[r].traza[i].tipo = "espera" =>
             /\ \E j \in 1..(i - 1) : corrida[r].traza[j].tipo = "invocar"
             /\ \E j \in (i + 1)..Len(corrida[r].traza) :
                  corrida[r].traza[j].tipo = "invocar"
      /\ (TodosFallaron(r) /\ Invocaciones(r) = MaxIntentos) =>
           Esperas(r) = MaxIntentos - 1

ValorExito(r) ==
  LET k == CHOOSE i \in 1..Len(corrida[r].hist) : corrida[r].hist[i].tipo = "resuelve"
  IN corrida[r].hist[k].valor

EventosDespues(r) == SelectSeq(corrida[r].traza, LAMBDA e : e.tipo = "despues")

\* C4: in every run the success callback is called at most once: exactly
\* once, with the result of the successful attempt, when an attempt succeeded
\* and a callback was supplied, and never when no attempt succeeded.
C4_DespuesALoSumoUnaVez ==
  \A r \in Runs :
    /\ LlamadasDespues(r) <= 1
    /\ (HuboExito(r) /\ DespuesDelUsuario) =>
         /\ LlamadasDespues(r) = 1
         /\ EventosDespues(r)[1].resultado = ValorExito(r)
    /\ ~HuboExito(r) => LlamadasDespues(r) = 0

\* C4 witness: a run whose second or later attempt succeeded and called despues
C4_Testigo ==
  \E r \in Runs :
    /\ Termino(r) /\ HuboExito(r) /\ Len(corrida[r].hist) >= 2
    /\ LlamadasDespues(r) = 1

\* C5: when an attempt succeeds (and the callback does not fail) iniciar()
\* has called the callback, if there is one, and is fulfilled with the result
\* of the successful attempt.
C5_ResuelveConElResultado ==
  \A r \in Runs :
    (Termino(r) /\ HuboExito(r) /\ ~FalloDespues(r)) =>
      /\ DespuesDelUsuario => LlamadasDespues(r) = 1
      /\ corrida[r].salida = [estado |-> "resuelta", valor |-> ValorExito(r)]

\* C6: every failure of the operation, a rejected promise or an exception of
\* the call itself, is counted as one failed attempt, and the caller of
\* iniciar() never receives the operation's own failure.
C6_FalloDeLaOperacionSeQuedaEnElBucle ==
  \A r \in Runs :
    corrida[r].pc # "inactiva" =>
      /\ Fallos(r) = Contador(r)
      /\ corrida[r].salida.estado \in {"rechazada", "lanzada"} =>
           corrida[r].salida.valor \notin {ErrorRechazo, ErrorLanzado}

\* position of the callback's event in the trace of run r
PosDespues(r) ==
  CHOOSE i \in 1..Len(corrida[r].traza) : corrida[r].traza[i].tipo = "despues"

\* C7: when the success callback fails, the operation is not invoked again,
\* no delay follows, and iniciar() is rejected with the callback's failure.
C7_FalloDeDespuesLlegaAlLlamador ==
  \A r \in Runs :
    FalloDespues(r) =>
      /\ Termino(r)
      /\ \A j \in (PosDespues(r) + 1)..Len(corrida[r].traza) :
           corrida[r].traza[j].tipo \notin {"invocar", "espera"}
      /\ corrida[r].salida = [estado |-> "rechazada", valor |-> ErrorDespues]

C9_SilencioSinLogDeError ==
  (Silencio /\ MaxIntentos >= 1) => \A r \in Runs : Errores(r) = 0

\* C10 (as claimed): the error iniciar() fails with after exhaustion carries
\* the task's name and the attempt count maxAttempts.
C10_ErrorLlevaNombreYConteo ==
  \A r \in Runs :
    (Agotada(r) /\ MaxIntentos >= 1 /\ corrida[r].salida.estado = "rechazada") =>
      LET e == corrida[r].salida.valor
      IN /\ "nombre" \in DOMAIN e /\ e.nombre = nombre
         /\ "intentos" \in DOMAIN e /\ e.intentos = MaxIntentos

EventosError(r) == SelectSeq(corrida[r].traza, LAMBDA e : e.tipo = "error")

\* C10 (amended): after exhaustion the error is a plain Error whose only
\* content is the fixed message "Todos los intentos fallaron.": the class and
\* the literal object reject iniciar() with it, all three variants log it,
\* and it has no field for the task's name or the attempt count.
C10_ErrorGenericoDeMensajeFijo ==
  \A r \in Runs :
    Agotada(r) =>
      /\ EventosError(r) = <<EvError(nombre, Err("Todos los intentos fallaron."))>>
      /\ variante # "async" =>
           corrida[r].salida =
             [estado |-> "rechazada", valor |-> Err("Todos los intentos fallaron.")]
      /\ corrida[r].salida.estado = "rechazada" =>
           DOMAIN corrida[r].salida.valor = {"t", "mensaje"}

\* C10 witness: iniciar() rejected after two or more failed attempts
C10_Testigo ==
  \E r \in Runs :
    /\ Agotada(r) /\ Fallos(r) >= 2
    /\ corrida[r].salida.estado = "rechazada"

\* C11: normalisation gives maxAttempts 3, delayMs 1000, silent false for an
\* empty configuration, replaces every missing, 0 or false field by its
\* default and keeps every other supplied value; the delay used between
\* attempts is the normalised delayMs.
C11_NormalizacionConDefectos ==
  LET c == opciones.configuracion
      maxE == IF c.reintentos.t = "number" /\ c.reintentos.v # 0
              THEN c.reintentos.v ELSE 3
      demE == IF c.demoraEntreIntentos.t = "number" /\ c.demoraEntreIntentos.v # 0
              THEN c.demoraEntreIntentos.v ELSE 1000
      silE == c.modoSilencioso.t = "boolean" /\ c.modoSilencioso.v
  IN /\ MaxIntentos = maxE
     /\ Silencio = silE
     /\ Demora = demE
     /\ variante = "clase" =>
          configuracion = [maxIntentos |-> Num(maxE),
                           demoraEntreIntentos |-> Num(demE),
                           silencio |-> Bool(silE)]
     /\ variante = "literal" =>
          configuracion = [reintentos |-> Num(maxE),
                           demoraEntreIntentos |-> Num(demE),
                           modoSilencioso |-> Bool(silE)]
     /\ \A r \in Runs : \A i \in 1..Len(corrida[r].traza) :
          corrida[r].traza[i].tipo = "espera" => corrida[r].traza[i].ms = demE

\* C11 witness: an instance built from an empty configuration object that
\* made its three attempts, 1000 ms apart
C11_Testigo ==
  /\ opciones.configuracion =
       [reintentos |-> Undef, demoraEntreIntentos |-> Undef, modoSilencioso |-> Undef]
  /\ \E r \in Runs :
       /\ Invocaciones(r) = 3 /\ Esperas(r) >= 2
       /\ \A i \in 1..Len(corrida[r].traza) :
            corrida[r].traza[i].tipo = "espera" => corrida[r].traza[i].ms = 1000

\* the failures of run r that reached the loop's catch: every failure in the
\* async variant, the rejected promises in the class and the literal object
FallosContados(r) ==
  IF variante = "async" THEN Fallos(r)
  ELSE Len(SelectSeq(corrida[r].hist, LAMBDA h : h.tipo = "rechaza"))

\* C12: a call of iniciar() on an instance whose earlier run has ended starts
\* with the attempt counter at 0: at every moment the counter holds only the
\* failures of the current run, and a run whose attempts are all rejected again
\* makes maxAttempts attempts, however many the earlier run made.
C12_ContadorNuevoEnCadaCorrida ==
  \A r \in Runs :
    corrida[r].pc # "inactiva" =>
      /\ Contador(r) = FallosContados(r)
      /\ (Termino(r) /\ TodosRechazaron(r) /\ MaxIntentos >= 1) =>
           Invocaciones(r) = MaxIntentos

\* C12 witness: a second run that made all its attempts after a first run
\* that had made two or more
C12_Testigo ==
  \E r \in Runs :
    /\ corridas >= 2 /\ corrida[r].antes >= 2
    /\ MaxIntentos >= 2
    /\ Termino(r) /\ TodosRechazaron(r) /\ Invocaciones(r) = MaxIntentos

\* C13 (as claimed): whatever reintentos was supplied, the normalised
\* maxAttempts is >= 1 and every run invokes the operation at least once.
C13_MaxIntentosPositivo ==
  /\ MaxIntentos >= 1
  /\ \A r \in Runs : corrida[r].pc # "inactiva" => Invocaciones(r) >= 1

\* C13 (amended): with reintentos missing, 0 or positive the normalised
\* maxAttempts is >= 1; a negative reintentos is kept as it is.  Every run
\* invokes the operation at least once, except in the async variant with a
\* negative reintentos, where no run invokes it at all.
C13_MaxIntentosPositivoSalvoNegativo ==
  LET x == opciones.configuracion.reintentos
      neg == x.t = "number" /\ x.v < 0
  IN /\ ~neg => MaxIntentos >= 1
     /\ neg => MaxIntentos = x.v
     /\ \A r \in Runs :
          corrida[r].pc # "inactiva" =>
            (Invocaciones(r) >= 1 <=> ~(neg /\ variante = "async"))

\* C13 witness: reintentos: 0 was supplied and the run made the three default
\* attempts
C13_Testigo ==
  /\ opciones.configuracion.reintentos = Num(0)
  /\ \E r \in Runs : Termino(r) /\ Invocaciones(r) = 3

(* --------------------- the run as a state machine ---------------------- *)
ExitoEn(c) == \E i \in 1..Len(c.hist) : c.hist[i].tipo = "resuelve"
FallosEn(c) == Len(SelectSeq(c.hist, LAMBDA h : h.tipo # "resuelve"))
InvocacionesEn(c) == Len(SelectSeq(c.traza, LAMBDA e : e.tipo = "invocar"))

\* the state of the run: Idle before iniciar(), Attempting while the promise
\* of ejecutar() is pending, Waiting while the timer of esperar() is pending,
\* Succeeded / Failed once iniciar() has settled
Fase(c) ==
  CASE c.pc = "inactiva" -> "Idle"
    [] c.pc = "intentando" -> "Attempting"
    [] c.pc = "esperando" -> "Waiting"
    [] c.pc = "terminada" -> IF ExitoEn(c) THEN "Succeeded" ELSE "Failed"

\* the states a run goes through in one step from c to d: a step of iniciar()
\* re-enters Idle, and a step that calls ejecutar() passes through Attempting
Camino(c, d) ==
  LET inicio == c.pc \in {"inactiva", "terminada"}
      p1 == IF inicio /\ c.pc = "terminada" THEN <<Fase(c), "Idle">> ELSE <<Fase(c)>>
      invoco == InvocacionesEn(d) > (IF inicio THEN 0 ELSE InvocacionesEn(c))
      p2 == IF invoco THEN Append(p1, "Attempting") ELSE p1
  IN IF p2[Len(p2)] = Fase(d) THEN p2 ELSE Append(p2, Fase(d))

\* the transitions of the specification's state machine; d is the run after
\* the step
Permitida(a, b, d) ==
  \/ a = "Idle" /\ b = "Attempting"
  \/ a = "Attempting" /\ b = "Succeeded"
  \/ a = "Attempting" /\ b = "Waiting" /\ FallosEn(d) < MaxIntentos
  \/ a = "Waiting" /\ b = "Attempting"
  \/ a = "Attempting" /\ b = "Failed" /\ FallosEn(d) >= MaxIntentos
  \/ a \in {"Succeeded", "Failed"} /\ b = "Idle"

SinExcepcion(c) == \A i \in 1..Len(c.hist) : c.hist[i].tipo # "lanza"

\* C14: (with maxAttempts >= 1 and an operation whose failures are rejected
\* promises) a run moves only along Idle->Attempting, Attempting->Succeeded,
\* Attempting->Waiting (failure, attempts remain), Waiting->Attempting,
\* Attempting->Failed (attempts exhausted); Succeeded and Failed are left only
\* by a new call of iniciar().
C14_SoloTransicionesDeLaMaquina ==
  [][\A r \in Runs :
       (MaxIntentos >= 1 /\ corrida'[r] # corrida[r] /\ SinExcepcion(corrida'[r])) =>
         LET p == Camino(corrida[r], corrida'[r])
         IN /\ \A i \in 1..(Len(p) - 1) : Permitida(p[i], p[i + 1], corrida'[r])
            /\ corrida[r].pc = "terminada" => corridas' = corridas + 1]_vars

EventosWarn(r) == SelectSeq(corrida[r].traza, LAMBDA e : e.tipo = "warn")

\* C15: with silent = false (and maxAttempts >= 1) the i-th failed attempt of
\* a run logs exactly one warning with the number i, so the warnings of a run
\* are numbered 1, 2, ... without gaps or repeats, and a run whose attempts
\* all fail logs maxAttempts warnings followed by exactly one error.
C15_WarnsNumeradosYUnError ==
  \A r \in Runs :
    (~Silencio /\ MaxIntentos >= 1) =>
      /\ Warns(r) = Fallos(r)
      /\ \A i \in 1..Warns(r) : EventosWarn(r)[i].n = i
      /\ (Termino(r) /\ TodosFallaron(r)) =>
           /\ Warns(r) = MaxIntentos
           /\ Errores(r) = 1
           /\ corrida[r].traza[Len(corrida[r].traza)].tipo = "error"

\* the failure of the last attempt of run r
UltimoFallo(r) == corrida[r].hist[Len(corrida[r].hist)].valor

\* C16 (as claimed): the error log of a terminal failure (maxAttempts >= 1)
\* contains the task's name and the failure the operation raised on its last
\* attempt.
C16_LogConElUltimoError ==
  \A r \in Runs :
    (Agotada(r) /\ MaxIntentos >= 1) =>
      /\ Errores(r) = 1
      /\ EventosError(r)[1].nombre = nombre
      /\ EventosError(r)[1].error = UltimoFallo(r)

\* C16 (amended): the error log of a terminal failure contains the task's
\* name (the one given at construction, or the default of the class and the
\* literal object) and the exhaustion Error, never the failure of an attempt.
C16_LogConElErrorDeAgotamiento ==
  \A r \in Runs :
    Agotada(r) =>
      /\ Errores(r) = 1
      /\ EventosError(r)[1].nombre =
           IF opciones.nombre.t = "undefined" /\ variante # "async"
           THEN Str("TareaSinNombre") ELSE opciones.nombre
      /\ EventosError(r)[1].error.mensaje = "Todos los intentos fallaron."
      /\ \A i \in 1..Len(corrida[r].hist) :
           EventosError(r)[1].error # corrida[r].hist[i].valor

\* C16 witness: a named task whose run was exhausted after two or more failures
C16_Testigo ==
  \E r \in Runs :
    /\ opciones.nombre # Undef
    /\ Agotada(r) /\ Fallos(r) >= 2 /\ Errores(r) = 1

\* C17: in the literal object the attempt counter is the one field
\* _intentosRealizados of the object: every entry of iniciar() sets it to 0,
\* also while another run is in flight, and every rejected attempt of any run
\* adds 1 to it.  (C17_Testigo is the interleaving the claim speaks of.)
C17_ContadorCompartidoYReiniciado ==
  [][variante = "literal" =>
       /\ corridas' # corridas => intentosRealizados' = 0
       /\ \A r \in Runs :
            ( /\ corridas' = corridas
              /\ Len(corrida'[r].hist) = Len(corrida[r].hist) + 1
              /\ corrida'[r].hist[Len(corrida'[r].hist)].tipo = "rechaza" )
            => intentosRealizados' = intentosRealizados + 1]_vars

\* C17 witness: two runs on the literal object overlapped, every attempt of
\* both was rejected, and one of them ended after a number of invocations
\* different from maxIntentos
C17_Testigo ==
  /\ variante = "literal" /\ MaxIntentos >= 1
  /\ \E r, q \in Runs :
       /\ r # q
       /\ TodosRechazaron(r) /\ TodosRechazaron(q)
       /\ Termino(r) /\ Invocaciones(r) # MaxIntentos

\* every call of ejecutar() in run r returned a promise that was settled
SoloAsentadas(r) ==
  \A i \in 1..Len(corrida[r].hist) : corrida[r].hist[i].tipo # "lanza"

\* C18 (as claimed, the bound): a run whose invocations all settle never
\* invokes the operation more than maxAttempts times: every invocation it
\* makes is the k-th for some k <= maxAttempts.
C18_ALoSumoMaxIntentos ==
  \A r \in RunsSecuencial :
    SoloAsentadas(r) =>
      \A k \in 1..Invocaciones(r) : k <= MaxIntentos

\* C18 (amended): when promises are settled and timers fire, every run that
\* is pending comes to an end, and a run whose invocations all settle
\* invokes the operation at most max(maxAttempts, 1) times.
C18_TerminaTrasPocosIntentos ==
  \A r \in RunsSecuencial :
    /\ (corrida[r].salida.estado = "pendiente") ~> Termino(r)
    /\ [](SoloAsentadas(r) =>
            Invocaciones(r) <= IF MaxIntentos >= 1 THEN MaxIntentos ELSE 1)

\* C18 witness: a run came to its end through failed attempts and delays
C18_Testigo ==
  \E r \in RunsSecuencial :
    /\ Termino(r) /\ SoloAsentadas(r)
    /\ Esperas(r) >= 1 /\ Invocaciones(r) >= 2

(* ---- the class variant as a function of the options and the outcomes --- *)
ClaseConf == ClasePrepararConfiguracion(opciones.configuracion)
ClaseNombre == NombreGuardado("clase", opciones.nombre)
ClaseDespues == DespuesGuardado("clase", opciones.despues)

Delante(eventos, resto) == [resto EXCEPT !.traza = eventos \o @]

\* iniciar() of the class from its i-th call of funcion() on, when the calls
\* do h[i], h[i+1], ... and the callback throws iff dLanza: the events and
\* what the caller gets.  The local counter is i-1 at the i-th call.
RECURSIVE ClaseCorrer(_, _, _)
ClaseCorrer(h, i, dLanza) ==
  IF i > Len(h)
  THEN [traza |-> <<>>, salida |-> [estado |-> "pendiente"]]
  ELSE
    CASE h[i].tipo = "resuelve" ->
           IF ~Falsy(ClaseDespues)
           THEN IF dLanza
                THEN [traza |-> <<EvInvocar, EvDespues(h[i].valor, TRUE),
                                  EvError(ClaseNombre, ErrorDespues)>>,
                      salida |-> [estado |-> "rechazada", valor |-> ErrorDespues]]
                ELSE [traza |-> <<EvInvocar, EvDespues(h[i].valor, FALSE)>>,
                      salida |-> [estado |-> "resuelta", valor |-> h[i].valor]]
           ELSE [traza |-> <<EvInvocar>>,
                 salida |-> [estado |-> "resuelta", valor |-> h[i].valor]]
      [] h[i].tipo = "lanza" ->
           IF i = 1
           THEN [traza |-> <<EvInvocar>>,
                 salida |-> [estado |-> "lanzada", valor |-> h[i].valor]]
           ELSE [traza |-> <<EvInvocar, EvError(ClaseNombre, h[i].valor)>>,
                 salida |-> [estado |-> "rechazada", valor |-> h[i].valor]]
      [] h[i].tipo = "rechaza" ->
           LET aviso == IF ~Falsy(ClaseConf.silencio) THEN <<>> ELSE <<EvWarn(i)>>
           IN IF i < ClaseConf.maxIntentos.v
              THEN Delante(<<EvInvocar>> \o aviso
                             \o <<EvEspera(ClaseConf.demoraEntreIntentos.v)>>,
                           ClaseCorrer(h, i + 1, dLanza))
              ELSE [traza |-> <<EvInvocar>> \o aviso
                                \o <<EvError(ClaseNombre, ErrorAgotado)>>,
                    salida |-> [estado |-> "rechazada", valor |-> ErrorAgotado]]

\* C19: the three variants are duplicates: a finished run of any of them
\* shows the events, and gives its caller the outcome, that the class
\* variant produces for the same options, the same outcomes of the operation
\* and the same behaviour of the callback.
C19_VariantesDuplicadas ==
  \A r \in RunsSecuencial :
    Termino(r) =>
      LET clase == ClaseCorrer(corrida[r].hist, 1, FalloDespues(r))
      IN /\ corrida[r].traza = clase.traza
         /\ corrida[r].salida = clase.salida

\* C20: in the class and in the async variant the counter belongs to one
\* call of the retry loop, so runs that overlap on one instance do not
\* disturb each other: under every interleaving the counter of each run
\* stays within 0..maxAttempts, and a finished run whose every attempt
\* failed has invoked the operation exactly maxAttempts times.
C20_CorridasIndependientes ==
  variante \in {"clase", "async"} =>
    \A r \in Runs :
      /\ corrida[r].intentos \in 0..MaxIntentos
      /\ (Termino(r) /\ TodosFallaron(r)) => Invocaciones(r) = MaxIntentos
====
